---- MODULE Spec2Model ----
(***************************************************************************)
(* A model of the AHRQ deduplicator                                        *)
(* (src/ahrq_project/01_search_scripts/deduplication_module.py):           *)
(* the normalizers, the title similarity score, the tiered matcher         *)
(* find_matches and the report, and of the merge of the parallel search    *)
(* (src/ahrq_project/01_search_scripts/ahrq_compendium_focused_search.py). *)
(*                                                                         *)
(* Python strings are sequences of one-character strings.  A cell of a     *)
(* pandas table is a record [t, s, n]: t is the Python type of the value   *)
(* ("str", "int", "float", "nan"), s its characters when it is a str and   *)
(* n its number when it is an int or a float with an integral value.       *)
(***************************************************************************)
EXTENDS Integers, Sequences, FiniteSets, TLC

VARIABLES
    phase,             \* the AHRQDeduplicator: "new", "ready", "failed"
    reference_df,      \* self.reference_df, with its derived columns
    doi_lookup,        \* self.doi_lookup: normalized DOI -> reference index
    title_year_lookup, \* self.title_year_lookup: <<title, year>> -> indices
    match_thresholds,  \* self.match_thresholds, from the configuration file
    search_results_df, \* the argument of the find_matches call in progress
    idx,               \* find_matches: the row the for loop is at
    results,           \* find_matches: its list results
    pc,                \* find_matches: "idle", "loop", "returned", "raised"
    exc,               \* the exception the last call ended with, or ""
    first_call,        \* the batch and the outcome of the call before this one
    report,            \* generate_deduplication_report: its outcome
    workers            \* the find_matches calls of concurrent workers

matcher_vars ==
    <<phase, reference_df, doi_lookup, title_year_lookup, match_thresholds,
      search_results_df, idx, results, pc, exc, first_call, report, workers>>

VARIABLES
    doi_bare,          \* SpecDoi: the DOI text inside the argument
    doi_prefix,        \* SpecDoi: what the argument has before it
    doi_in,            \* SpecDoi: the argument of _normalize_doi
    doi_out,           \* SpecDoi: what _normalize_doi returned for it
    doi_out2,          \* SpecDoi: what _normalize_doi returned for doi_out
    doi_pc             \* SpecDoi: "idle", "in", "once", "twice"

doi_vars == <<doi_bare, doi_prefix, doi_in, doi_out, doi_out2, doi_pc>>

VARIABLES
    sim_a,             \* SpecSim: the first title
    sim_b,             \* SpecSim: the second title
    sim_ab,            \* SpecSim: _calculate_title_similarity(sim_a, sim_b)
    sim_ba,            \* SpecSim: _calculate_title_similarity(sim_b, sim_a)
    sim_pc             \* SpecSim: "idle", "in", "ab", "both"

sim_vars == <<sim_a, sim_b, sim_ab, sim_ba, sim_pc>>

VARIABLES
    title_in,          \* SpecTitle: the argument of _normalize_title
    title_out,         \* SpecTitle: what _normalize_title returned for it
    title_pc           \* SpecTitle: "idle", "in", "out"

title_vars == <<title_in, title_out, title_pc>>

VARIABLES
    author_surname,    \* SpecAuthor: the surname of the author
    author_given,      \* SpecAuthor: the given name of the author
    author_comma,      \* SpecAuthor: _extract_first_author("Surname, Given")
    author_initial,    \* SpecAuthor: _extract_first_author("Surname G.")
    author_pc          \* SpecAuthor: "idle", "in", "comma", "both"

author_vars ==
    <<author_surname, author_given, author_comma, author_initial, author_pc>>

VARIABLES
    entries,           \* SpecSearch: the eids the queries of each agent return
    agent_results,     \* SpecSearch: agent.results of each agent
    agent_state,       \* SpecSearch: each agent's future: "running", "done",
                       \*   "failed", and "collected", "reported" once the
                       \*   loop of as_completed has handled it
    all_results,       \* SpecSearch: self.all_results
    seen_eids          \* SpecSearch: self.seen_eids

search_vars == <<entries, agent_results, agent_state, all_results, seen_eids>>

\* The variables of the other functions checked on their own, and of the
\* parallel search.
rest_vars == <<title_vars, author_vars, search_vars>>

vars == <<matcher_vars, doi_vars, sim_vars, rest_vars>>

----------------------------------------------------------------------------
(* Characters and Python's str methods *)

DigitChars == <<"0", "1", "2", "3", "4", "5", "6", "7", "8", "9">>

LowerChars ==
    <<"a", "b", "c", "d", "e", "f", "g", "h", "i", "j", "k", "l", "m",
      "n", "o", "p", "q", "r", "s", "t", "u", "v", "w", "x", "y", "z">>

UpperChars ==
    <<"A", "B", "C", "D", "E", "F", "G", "H", "I", "J", "K", "L", "M",
      "N", "O", "P", "Q", "R", "S", "T", "U", "V", "W", "X", "Y", "Z">>

Range(f) == {f[i] : i \in DOMAIN f}

IsDigit(c) == c \in Range(DigitChars)

\* \w of Python's re on a str: letters, digits and the underscore.
IsWord(c) == c \in Range(DigitChars) \cup Range(LowerChars) \cup Range(UpperChars) \cup {"_"}

\* \s, and the characters str.split() and str.strip() treat as whitespace.
IsSpace(c) == c \in {" ", "\t", "\n"}

LowerChar(c) ==
    IF c \in Range(UpperChars)
    THEN LowerChars[CHOOSE i \in DOMAIN UpperChars : UpperChars[i] = c]
    ELSE c

\* str.lower()
Lower(s) == [i \in 1..Len(s) |-> LowerChar(s[i])]

\* str.strip()
Strip(s) ==
    LET keep == {i \in 1..Len(s) : ~IsSpace(s[i])}
        Min(S) == CHOOSE x \in S : \A y \in S : x <= y
        Max(S) == CHOOSE x \in S : \A y \in S : x >= y
    IN  IF keep = {} THEN <<>> ELSE SubSeq(s, Min(keep), Max(keep))

\* sub in s (Python's "in" on two strings)
Contains(s, sub) ==
    \E i \in 1..(Len(s) - Len(sub) + 1) : SubSeq(s, i, i + Len(sub) - 1) = sub

\* The cells of a table.
StrCell(x) == [t |-> "str", s |-> x, n |-> 0]
IntCell(k) == [t |-> "int", s |-> <<>>, n |-> k]
FloatCell(k) == [t |-> "float", s |-> <<>>, n |-> k]
NaN == [t |-> "nan", s |-> <<>>, n |-> 0]

\* The cell of a column the table does not have.
Absent == [t |-> "absent", s |-> <<>>, n |-> 0]

\* row.get(column, ''): the cell, or '' when the table has no such column.
Get(cell) == IF cell.t = "absent" THEN StrCell(<<>>) ELSE cell

\* pd.isna(cell)
IsNa(cell) == cell.t = "nan"

\* bool(cell): the empty string and the number 0 are false, NaN is true.
Truthy(cell) ==
    CASE cell.t = "str" -> cell.s # <<>>
      [] cell.t \in {"int", "float"} -> cell.n # 0
      [] OTHER -> TRUE

RECURSIVE IntToStr(_)
IntToStr(k) ==
    IF k < 10 THEN <<DigitChars[k + 1]>>
    ELSE IntToStr(k \div 10) \o <<DigitChars[(k % 10) + 1]>>

\* str(cell): 2021 -> "2021", 2021.0 -> "2021.0", NaN -> "nan".
PyStr(cell) ==
    CASE cell.t = "str" -> cell.s
      [] cell.t = "int" -> IntToStr(cell.n)
      [] cell.t = "float" -> IntToStr(cell.n) \o <<".", "0">>
      [] OTHER -> <<"n", "a", "n">>

----------------------------------------------------------------------------
(* _normalize_doi *)

\* The {4,} of the patterns: at least this many digits after "10.".
MinDoiDigits == 4

\* The character class [/\.\-\w] of the patterns.
DoiClass(c) == c \in {"/", ".", "-"} \/ IsWord(c)

\* The last index of the longest run of class characters that starts at i
\* (i - 1 when s[i] is not one): the + of the patterns is greedy.
RECURSIVE DoiRunEnd(_, _)
DoiRunEnd(s, i) ==
    IF i <= Len(s) /\ DoiClass(s[i]) THEN DoiRunEnd(s, i + 1) ELSE i - 1

\* 10\.\d{4,}[/\.\-\w]+ matches at i: "10.", at least four digits and one
\* more class character (a digit is one, so \d{4,} gives the last one back).
DoiMatchesAt(s, i) ==
    /\ i + 2 <= Len(s)
    /\ s[i] = "1" /\ s[i + 1] = "0" /\ s[i + 2] = "."
    /\ DoiRunEnd(s, i + 3) >= i + 3 + MinDoiDigits
    /\ \A k \in 0..(MinDoiDigits - 1) : IsDigit(s[i + 3 + k])

\* The text of a match of the DOI at i.
DoiMatchText(s, i) == SubSeq(s, i, DoiRunEnd(s, i + 3))

\* The three patterns: the literal text that must precede the DOI, and the
\* source text of the pattern (line 69 looks into it).
DoiPatterns ==
    << [literal |-> <<>>,
        text |-> <<"1","0","\\",".","\\","d","{","4",",","}","[","/","\\",".","\\","-","\\","w","]","+">>,
        groups |-> 0],
       [literal |-> <<"d","o","i",".","o","r","g","/">>,
        text |-> <<"d","o","i","\\",".","o","r","g","/","(","1","0","\\",".","\\","d","{","4",",","}","[","/","\\",".","\\","-","\\","w","]","+",")">>,
        groups |-> 1],
       [literal |-> <<"d","x",".","d","o","i",".","o","r","g","/">>,
        text |-> <<"d","x","\\",".","d","o","i","\\",".","o","r","g","/","(","1","0","\\",".","\\","d","{","4",",","}","[","/","\\",".","\\","-","\\","w","]","+",")">>,
        groups |-> 1] >>

\* The pattern matches at i: its literal, then the DOI.
PatternMatchesAt(p, s, i) ==
    /\ i + Len(p.literal) - 1 <= Len(s)
    /\ SubSeq(s, i, i + Len(p.literal) - 1) = p.literal
    /\ DoiMatchesAt(s, i + Len(p.literal))

\* re.search(pattern, s): the leftmost match; 0 when there is none.
PatternSearch(p, s) ==
    LET hits == {i \in 1..Len(s) : PatternMatchesAt(p, s, i)}
    IN  IF hits = {} THEN 0 ELSE CHOOSE i \in hits : \A j \in hits : i <= j

\* Line 69: match.groups() and '/' in pattern and 'doi.org' in pattern.
PatternReturnsGroup(p) ==
    /\ p.groups > 0
    /\ Contains(p.text, <<"/">>)
    /\ Contains(p.text, <<"d","o","i",".","o","r","g">>)

\* A match cut one character short of its end.
MatchGroup0Short(p, s, i) == SubSeq(s, i, DoiRunEnd(s, i + Len(p.literal) + 3) - 1)

\* match.group(0): the whole match, the literal and the DOI.
MatchGroup0(p, s, i) == SubSeq(s, i, DoiRunEnd(s, i + Len(p.literal) + 3))

\* What a found pattern returns: group(1), the DOI, or group(0), the match.
PatternResult(p, s, i) ==
    IF PatternReturnsGroup(p)
    THEN DoiMatchText(s, i + Len(p.literal))
    ELSE MatchGroup0(p, s, i)

\* The patterns with the two URL patterns tried first.
PatternOrderUrlFirst == <<2, 3, 1>>

\* The order in which the for loop tries the patterns.

PatternOrder == <<1, 2, 3>>

RECURSIVE TryPatterns(_, _)
TryPatterns(s, k) ==
    IF k > Len(PatternOrder) THEN s
    ELSE LET p == DoiPatterns[PatternOrder[k]]
             i == PatternSearch(p, s)
         IN  IF i # 0 THEN PatternResult(p, s, i) ELSE TryPatterns(s, k + 1)

\* _normalize_doi(doi)
NormalizeDoi(cell) ==
    IF IsNa(cell) THEN <<>> ELSE TryPatterns(Strip(Lower(PyStr(cell))), 1)

----------------------------------------------------------------------------
(* _normalize_title *)

StopWords ==
    { <<"t","h","e">>, <<"a">>, <<"a","n">>, <<"a","n","d">>, <<"o","r">>,
      <<"b","u","t">>, <<"i","n">>, <<"o","n">>, <<"a","t">>, <<"t","o">>,
      <<"f","o","r">>, <<"o","f">>, <<"w","i","t","h">>, <<"b","y">> }

\* re.sub(r'[^\w\s]', ' ', s): what is neither a word character nor
\* whitespace becomes a space.
SubPunctuation(s) ==
    [i \in 1..Len(s) |-> IF IsWord(s[i]) \/ IsSpace(s[i]) THEN s[i] ELSE " "]

\* re.sub(r'\s+', ' ', s): each run of whitespace becomes one space.
RECURSIVE CollapseSpaces(_)
CollapseSpaces(s) ==
    IF s = <<>> THEN <<>>
    ELSE IF IsSpace(s[1])
         THEN IF Len(s) > 1 /\ IsSpace(s[2])
              THEN CollapseSpaces(Tail(s))
              ELSE <<" ">> \o CollapseSpaces(Tail(s))
         ELSE <<s[1]>> \o CollapseSpaces(Tail(s))

\* str.split(): the maximal runs of non-whitespace characters, in order.
RECURSIVE SplitFrom(_, _, _)
SplitFrom(s, i, word) ==
    IF i > Len(s) THEN (IF word = <<>> THEN <<>> ELSE <<word>>)
    ELSE IF IsSpace(s[i])
         THEN (IF word = <<>> THEN <<>> ELSE <<word>>) \o SplitFrom(s, i + 1, <<>>)
         ELSE SplitFrom(s, i + 1, Append(word, s[i]))

Split(s) == SplitFrom(s, 1, <<>>)

\* ' '.join(words)
RECURSIVE JoinWords(_)
JoinWords(words) ==
    IF words = <<>> THEN <<>>
    ELSE IF Len(words) = 1 THEN words[1]
    ELSE words[1] \o <<" ">> \o JoinWords(Tail(words))

\* [w for w in words if w not in stop_words]
KeepStopWords(words) == words

DropStopWords(words) == SelectSeq(words, LAMBDA w : w \notin StopWords)

\* _normalize_title(title)
NormalizeTitle(cell) ==
    IF IsNa(cell) THEN <<>>
    ELSE Strip(JoinWords(DropStopWords(
             Split(CollapseSpaces(SubPunctuation(Lower(PyStr(cell))))))))

----------------------------------------------------------------------------
(* _extract_first_author *)

\* s.split(sep)[0]: what precedes the first sep.
RECURSIVE BeforeFirst(_, _)
BeforeFirst(s, sep) ==
    IF s = <<>> \/ s[1] = sep THEN <<>>
    ELSE <<s[1]>> \o BeforeFirst(Tail(s), sep)

\* s.count(c)
CountChar(s, c) == Cardinality({i \in 1..Len(s) : s[i] = c})

\* words[0]
FirstWord(words) ==
    IF words = <<>> THEN [raised |-> "IndexError", value |-> <<>>]
    ELSE [raised |-> "", value |-> words[1]]

\* Lines 103-108: the first author's segment.  authors_str.split()[0]
\* raises IndexError for a string of whitespace only: it is not empty, and
\* its split() is.
FirstAuthorSegment(s) ==
    IF Contains(s, <<";">>)
        THEN [raised |-> "", value |-> BeforeFirst(s, ";")]
    ELSE IF Contains(s, <<",">>) /\ CountChar(s, ",") > 1
        THEN [raised |-> "", value |-> BeforeFirst(s, ",")]
    ELSE IF s = <<>>
        THEN [raised |-> "", value |-> <<>>]
    ELSE FirstWord(Split(s))

\* Lines 111-115: the last word of the segment.
LastWord(parts) ==
    IF parts # <<>> THEN [raised |-> "", value |-> parts[Len(parts)]]
    ELSE [raised |-> "", value |-> <<>>]

LastWordOfSegment(seg) ==
    IF seg.raised # "" THEN seg ELSE LastWord(Split(Strip(seg.value)))

\* _extract_first_author(authors): [raised, value], raised the exception
\* it ends with ("" when it returns value).
ExtractFirstAuthor(cell) ==
    IF IsNa(cell) THEN [raised |-> "", value |-> <<>>]
    ELSE LastWordOfSegment(FirstAuthorSegment(PyStr(cell)))

----------------------------------------------------------------------------
(* _calculate_title_similarity *)

(* A score is an exact fraction [num, den] in lowest terms, den > 0: the
   floats of the code are the nearest doubles to these. *)
RECURSIVE Gcd(_, _)
Gcd(x, y) == IF y = 0 THEN x ELSE Gcd(y, x % y)

Frac(num, den) ==
    LET g == Gcd(num, den)
    IN  IF num = 0 THEN [num |-> 0, den |-> 1]
        ELSE [num |-> num \div g, den |-> den \div g]

Whole(k) == [num |-> k, den |-> 1]

FracGeq(x, y) == x.num * y.den >= y.num * x.den

\* At least, where the code asks for more.
FracAtLeast(x, y) == x.num * y.den >= y.num * x.den

FracGt(x, y) == x.num * y.den > y.num * x.den

\* The length of the longest common run of a from i and b from j, inside
\* a[..ahi-1] and b[..bhi-1].
RECURSIVE CommonRun(_, _, _, _, _, _)
CommonRun(a, b, i, j, ahi, bhi) ==
    IF i < ahi /\ j < bhi /\ a[i] = b[j]
    THEN 1 + CommonRun(a, b, i + 1, j + 1, ahi, bhi)
    ELSE 0

\* SequenceMatcher.find_longest_match(alo, ahi, blo, bhi) with no junk:
\* <<i, j, k>>, the longest block a[i..i+k-1] = b[j..j+k-1]; of the longest
\* blocks the one that starts earliest in a, and of those the one that
\* starts earliest in b.
FindLongestMatch(a, b, alo, ahi, blo, bhi) ==
    LET blocks == { <<p[1], p[2], CommonRun(a, b, p[1], p[2], ahi, bhi)>> :
                      p \in (alo..(ahi - 1)) \X (blo..(bhi - 1)) }
    IN  IF \A m \in blocks : m[3] = 0 THEN <<alo, blo, 0>>
        ELSE CHOOSE m \in blocks :
                 \A q \in blocks :
                     \/ m[3] > q[3]
                     \/ /\ m[3] = q[3]
                        /\ \/ m[1] < q[1]
                           \/ m[1] = q[1] /\ m[2] <= q[2]

\* The total size of SequenceMatcher.get_matching_blocks(): the longest
\* block, then the same to its left and to its right.
RECURSIVE MatchingSize(_, _, _, _, _, _)
MatchingSizeAround(a, b, alo, ahi, blo, bhi, m) ==
    IF m[3] = 0 THEN 0
    ELSE m[3] + MatchingSize(a, b, alo, m[1], blo, m[2])
              + MatchingSize(a, b, m[1] + m[3], ahi, m[2] + m[3], bhi)

MatchingSize(a, b, alo, ahi, blo, bhi) ==
    MatchingSizeAround(a, b, alo, ahi, blo, bhi,
                       FindLongestMatch(a, b, alo, ahi, blo, bhi))

\* SequenceMatcher(None, a, b).ratio(): 2.0 * matches / (len(a) + len(b)),
\* and 1.0 when both are empty.
SeqRatio(a, b) ==
    IF Len(a) + Len(b) = 0 THEN Whole(1)
    ELSE Frac(2 * MatchingSize(a, b, 1, Len(a) + 1, 1, Len(b) + 1), Len(a) + Len(b))

\* intersection / union of two sets, 0 when one of them is empty.
Jaccard(S, T) ==
    IF S = {} \/ T = {} THEN Whole(0)
    ELSE Frac(Cardinality(S \cap T), Cardinality(S \cup T))

\* set(title.split())
WordSet(s) == Range(Split(s))

\* The n of get_ngrams.
NgramSize == 3

\* get_ngrams(text, 3)
Ngrams(s) == {SubSeq(s, i, i + NgramSize - 1) : i \in 1..(Len(s) - NgramSize + 1)}

\* (seq_ratio * 0.4 + word_overlap * 0.3 + ngram_sim * 0.3) * 100
WeightedScore(seq, word, ngram) ==
    Frac(40 * seq.num * word.den * ngram.den
           + 30 * word.num * seq.den * ngram.den
           + 30 * ngram.num * seq.den * word.den,
         seq.den * word.den * ngram.den)

\* _calculate_title_similarity(title1, title2)
CalculateTitleSimilarity(title1, title2) ==
    WeightedScore(SeqRatio(title1, title2),
                  Jaccard(WordSet(title1), WordSet(title2)),
                  Jaccard(Ngrams(title1), Ngrams(title2)))

----------------------------------------------------------------------------
(* The reference table and the constructor *)

\* 'reference_idx': None
None == 0

\* pd.read_csv on the year column: a column of integers with a missing
\* value in it is a column of floats.
ReadCsvYear(rows, cell) ==
    IF cell.t = "int" /\ \E k \in 1..Len(rows) : IsNa(rows[k].Publication_Year)
    THEN FloatCell(cell.n)
    ELSE cell

ReadCsv(rows) ==
    [k \in 1..Len(rows) |->
        [rows[k] EXCEPT !.Publication_Year = ReadCsvYear(rows, rows[k].Publication_Year)]]

\* Lines 33-39: the derived columns of one row.
DerivedColumns(row) ==
    [Title |-> row.Title, DOI_URL |-> row.DOI_URL,
     Authors_Standardized |-> row.Authors_Standardized,
     Publication_Year |-> row.Publication_Year,
     Journal_Venue |-> row.Journal_Venue,
     doi_normalized |-> NormalizeDoi(row.DOI_URL),
     title_normalized |-> NormalizeTitle(row.Title),
     first_author |-> ExtractFirstAuthor(row.Authors_Standardized).value]

\* self.reference_df[column] of lines 33, 36 and 39 raises KeyError when
\* the table has no such column.
LacksColumn(rows) ==
    \E k \in 1..Len(rows) :
        Absent \in {rows[k].DOI_URL, rows[k].Title, rows[k].Authors_Standardized}

\* The exception _prepare_reference_data ends with, "" when it returns.
PrepareRaises(rows) ==
    IF LacksColumn(rows) THEN "KeyError"
    ELSE IF \E k \in 1..Len(rows) :
                ExtractFirstAuthor(rows[k].Authors_Standardized).raised # ""
        THEN "IndexError"
    ELSE ""

\* dict(zip(doi_normalized, index)): a later row replaces an earlier one.
\* Every key with the last row of the table.
BuildDoiLookupLastRow(df) ==
    [d \in {df[k].doi_normalized : k \in 1..Len(df)} |-> Len(df)]

BuildDoiLookup(df) ==
    [d \in {df[k].doi_normalized : k \in 1..Len(df)} |->
        CHOOSE k \in 1..Len(df) :
            /\ df[k].doi_normalized = d
            /\ \A j \in 1..Len(df) : df[j].doi_normalized = d => j <= k]

\* The indices of a set in increasing order.
RECURSIVE Ascending(_)
Ascending(S) ==
    IF S = {} THEN <<>>
    ELSE LET m == CHOOSE x \in S : \A y \in S : x <= y
         IN  <<m>> \o Ascending(S \ {m})

\* (row['title_normalized'], str(row.get('Publication_Year', '')))
TitleYearKey(row) == <<row.title_normalized, PyStr(Get(row.Publication_Year))>>

\* Each key with its first row only.
BuildTitleYearLookupFirst(df) ==
    [key \in {TitleYearKey(df[k]) : k \in 1..Len(df)} |->
        SubSeq(Ascending({k \in 1..Len(df) : TitleYearKey(df[k]) = key}), 1, 1)]

\* Lines 45-49: each key's rows, appended in the order of the table.
BuildTitleYearLookup(df) ==
    [key \in {TitleYearKey(df[k]) : k \in 1..Len(df)} |->
        Ascending({k \in 1..Len(df) : TitleYearKey(df[k]) = key})]

----------------------------------------------------------------------------
(* find_matches: one row *)

\* int() of a text of digits.
RECURSIVE DigitsValue(_)
DigitsValue(u) ==
    IF u = <<>> THEN 0
    ELSE 10 * DigitsValue(SubSeq(u, 1, Len(u) - 1))
         + (CHOOSE d \in 0..9 : DigitChars[d + 1] = u[Len(u)])

AllDigits(u) == \A i \in 1..Len(u) : IsDigit(u[i])

\* The digits before and after the point of a number.
ParseParts(whole, frac) ==
    IF AllDigits(whole) /\ AllDigits(frac) /\ Len(whole) + Len(frac) > 0
    THEN [err |-> "", n |-> DigitsValue(whole)]
    ELSE [err |-> "ValueError", n |-> 0]

ParseAtPoint(t, dot) == ParseParts(SubSeq(t, 1, dot - 1), SubSeq(t, dot + 1, Len(t)))

ParseFloatText(t) ==
    IF t = <<"n","a","n">> THEN [err |-> "ValueError", n |-> 0]
    ELSE IF t \in {<<"i","n","f">>, <<"i","n","f","i","n","i","t","y">>}
        THEN [err |-> "OverflowError", n |-> 0]
    ELSE ParseAtPoint(t, Len(BeforeFirst(t, ".")) + 1)

\* int(float(s)) of line 226: [err, n].  float() takes digits with an
\* optional fraction, "nan" and "inf"; int() of a NaN raises ValueError and
\* int() of an infinity OverflowError.
ParseYear(s) == ParseFloatText(Lower(Strip(s)))

\* The difference with its sign kept.
Signed(k) == k

Abs(k) == IF k < 0 THEN 0 - k ELSE k

\* The widest difference of years the fuzzy tier still scores.
MaxYearGap == 1

\* Lines 224-230 for one reference row: "skip" (continue), "score", or the
\* exception that leaves the loop.
YearFilterParsed(y, r) ==
    IF y.err = "ValueError" THEN "skip"
    ELSE IF y.err # "" THEN y.err
    ELSE IF r.err = "ValueError" THEN "skip"
    ELSE IF r.err # "" THEN r.err
    ELSE IF Abs(y.n - r.n) > MaxYearGap THEN "skip"
    ELSE "score"

YearFilter(year, ref_year) ==
    IF year = <<>> \/ ref_year = <<>> THEN "score"
    ELSE YearFilterParsed(ParseYear(year), ParseYear(ref_year))

\* best_score = 0
BestScoreStart == 0

\* Lines 219-238: the fuzzy scan from row k on, best the running best match
\* [match, score, err].
FuzzyBest(k, best, f, similarity) ==
    IF f = "skip" THEN best
    ELSE IF f # "score" THEN [best EXCEPT !.err = f]
    ELSE IF FracGt(similarity, best.score)
        THEN [match |-> k, score |-> similarity, err |-> ""]
    ELSE best

RECURSIVE FuzzyScan(_, _, _, _)
FuzzyScan(title_norm, year, k, best) ==
    IF k > Len(reference_df) \/ best.err # "" THEN best
    ELSE FuzzyScan(title_norm, year, k + 1,
                   FuzzyBest(k, best,
                             YearFilter(year, PyStr(Get(reference_df[k].Publication_Year))),
                             CalculateTitleSimilarity(title_norm,
                                                      reference_df[k].title_normalized)))

\* Lines 245-250
FuzzyStatus(best_score) ==
    IF FracGeq(best_score, Whole(90)) THEN "very_likely_match"
    ELSE IF FracGeq(best_score, Whole(80)) THEN "probable_match"
    ELSE "possible_match"

\* Lines 268-273: the first reference row with the same first author,
\* ignoring case, and the same year string; None when there is none.
AuthorYearScan(search_first_author, year) ==
    LET hits == {k \in 1..Len(reference_df) :
                    /\ Lower(search_first_author) = Lower(reference_df[k].first_author)
                    /\ year = PyStr(Get(reference_df[k].Publication_Year))}
    IN  IF hits = {} THEN None ELSE CHOOSE k \in hits : \A j \in hits : k <= j

\* cell.lower(): only a str has the method.
LowerRaises(cell) == cell.t # "str"

\* The bonus of line 278.
JournalBonus == 10

\* Lines 159-173
NewMatchInfo(i, row) ==
    [search_idx |-> i, search_eid |-> row.eid, search_doi |-> row.doi,
     search_title |-> row.title, search_authors |-> row.authors,
     search_year |-> row.year, match_status |-> "no_match",
     match_confidence |-> Whole(0), match_type |-> "",
     reference_idx |-> None, reference_title |-> StrCell(<<>>),
     reference_doi |-> StrCell(<<>>),
     match_details |-> [kind |-> "", arg |-> <<>>, score |-> Whole(0)]]

\* match_info.update({...}) of a tier that hit reference row k.
Matched(info, status, confidence, type, k, details) ==
    [info EXCEPT !.match_status = status, !.match_confidence = confidence,
                 !.match_type = type, !.reference_idx = k,
                 !.reference_title = reference_df[k].Title,
                 !.reference_doi = reference_df[k].DOI_URL,
                 !.match_details = details]

\* Lines 275-290: the hit of the author + year tier on reference row k.
AuthorYearHit(info, row, year, author, k) ==
    IF LowerRaises(row.journal) \/ LowerRaises(Get(reference_df[k].Journal_Venue))
    THEN [raised |-> "AttributeError", info |-> info]
    ELSE [raised |-> "",
          info |-> Matched(info, "possible_match",
                           Whole(IF Lower(PyStr(row.journal))
                                      = Lower(PyStr(Get(reference_df[k].Journal_Venue)))
                                 THEN match_thresholds.author_year + JournalBonus
                                 ELSE match_thresholds.author_year),
                           "author_year", k,
                           [kind |-> "Author + year match",
                            arg |-> author \o <<" ">> \o year,
                            score |-> Whole(0)])]

AuthorYearFound(info, row, year, author, k) ==
    IF k = None THEN [raised |-> "", info |-> info]
    ELSE AuthorYearHit(info, row, year, author, k)

AuthorYearOf(info, row, year, author) ==
    IF author.raised # "" THEN [raised |-> author.raised, info |-> info]
    ELSE IF author.value = <<>> \/ year = <<>> THEN [raised |-> "", info |-> info]
    ELSE AuthorYearFound(info, row, year, author.value,
                         AuthorYearScan(author.value, year))

\* Lines 264-294: the author + year tier and the no_match that follows it.
AuthorYearTier(info, row, year) ==
    AuthorYearOf(info, row, year, ExtractFirstAuthor(row.authors))

\* The outcome of the fuzzy scan with the author + year tier asked first.
FuzzyOutcomeAuthorFirst(info, row, year, best) ==
    LET author == AuthorYearTier(info, row, year)
    IN  IF author.raised # "" \/ author.info.match_status # "no_match"
           \/ best.err # "" \/ best.match = None
           \/ ~FracGeq(best.score, Whole(match_thresholds.title_fuzzy))
        THEN author
        ELSE [raised |-> "",
              info |-> Matched(info, FuzzyStatus(best.score), best.score,
                               "title_fuzzy", best.match,
                               [kind |-> "Title similarity",
                                arg |-> <<>>, score |-> best.score])]

\* Lines 240-262: the outcome of the fuzzy scan.
FuzzyOutcome(info, row, year, best) ==
    IF best.err # "" THEN [raised |-> best.err, info |-> info]
    ELSE IF FracGeq(best.score, Whole(match_thresholds.title_fuzzy))
        THEN IF best.match = None
             THEN [raised |-> "KeyError", info |-> info]
             ELSE [raised |-> "",
                   info |-> Matched(info, FuzzyStatus(best.score), best.score,
                                    "title_fuzzy", best.match,
                                    [kind |-> "Title similarity",
                                     arg |-> <<>>, score |-> best.score])]
    ELSE AuthorYearTier(info, row, year)

\* Lines 199-262: the two title tiers.
TitleTiersOf(info, row, title_norm, year) ==
    IF title_norm = <<>> THEN AuthorYearTier(info, row, year)
    ELSE IF <<title_norm, year>> \in DOMAIN title_year_lookup
            /\ title_year_lookup[<<title_norm, year>>] # <<>>
        THEN [raised |-> "",
              info |-> Matched(info, "very_likely_match", Whole(90),
                               "title_year_exact",
                               title_year_lookup[<<title_norm, year>>][1],
                               [kind |-> "Exact title and year match",
                                arg |-> <<>>, score |-> Whole(0)])]
    ELSE FuzzyOutcome(info, row, year,
                      FuzzyScan(title_norm, year, 1,
                                [match |-> None, score |-> Whole(BestScoreStart),
                                 err |-> ""]))

\* Lines 195-262: the title tiers, then the author + year tier.
TitleTiers(info, row) ==
    TitleTiersOf(info, row, NormalizeTitle(row.title), PyStr(row.year))

\* Lines 178-193: the DOI tier.
DoiTier(info, row, doi_norm) ==
    IF Truthy(row.doi) /\ doi_norm # <<>> /\ doi_norm \in DOMAIN doi_lookup
    THEN [raised |-> "",
          info |-> Matched(info, "definite_match", Whole(match_thresholds.doi),
                           "doi", doi_lookup[doi_norm],
                           [kind |-> "DOI match", arg |-> doi_norm,
                            score |-> Whole(0)])]
    ELSE TitleTiers(info, row)

\* The pass with the title and author tiers tried before the DOI tier.
MatchRowTitleFirst(i, row) ==
    LET later == TitleTiers(NewMatchInfo(i, row), row)
    IN  IF later.raised # "" \/ later.info.match_status # "no_match" THEN later
        ELSE DoiTier(NewMatchInfo(i, row), row, NormalizeDoi(row.doi))

\* Lines 158-294: one pass of the for loop on row i: [raised, info].
MatchRow(i, row) == DoiTier(NewMatchInfo(i, row), row, NormalizeDoi(row.doi))

----------------------------------------------------------------------------
(* The tables the model runs on *)

Str(x) == StrCell(x)

\* Reference rows as they stand in the CSV file: the year is an integer or
\* is missing.
RefFull ==
    [Title |-> Str(<<"A","b"," ","C","d"," ","E","f">>),
     DOI_URL |-> Str(<<"h","t","t","p","s",":","/","/","d","o","i",".","o","r","g","/","1","0",".","1","2","3","4","/","x">>),
     Authors_Standardized |-> Str(<<"S","m","i","t","h"," ","J",".">>),
     Publication_Year |-> IntCell(2021),
     Journal_Venue |-> Str(<<"J","a","m","a">>)]

RefBare ==
    [Title |-> Str(<<"a","b"," ","c","d"," ","e","f">>),
     DOI_URL |-> NaN, Authors_Standardized |-> NaN,
     Publication_Year |-> NaN, Journal_Venue |-> NaN]

RefTwin ==
    [Title |-> Str(<<"A","b",","," ","t","h","e"," ","c","d"," ","e","f","!">>),
     DOI_URL |-> Str(<<"1","0",".","1","2","3","4","/","X">>),
     Authors_Standardized |-> Str(<<"L","e","e"," ","K",".",";"," ","S","m","i","t","h"," ","J",".">>),
     Publication_Year |-> IntCell(2021),
     Journal_Venue |-> Str(<<"J","A","M","A">>)]

RefBlankAuthors ==
    [RefFull EXCEPT !.Authors_Standardized = Str(<<" ">>)]

Corpora ==
    { <<RefFull>>, <<RefFull, RefBare>>, <<RefTwin, RefFull>>, <<RefBlankAuthors>> }

\* config['deduplication']['match_thresholds']
Configs ==
    { [doi |-> 100, title_fuzzy |-> 70, author_year |-> 60],
      [doi |-> 95, title_fuzzy |-> 75, author_year |-> 65],
      [doi |-> 100, title_fuzzy |-> 80, author_year |-> 95] }

\* The values a candidate's fields take.
CandDois ==
    { NaN, Str(<<>>), Str(<<"D","O","I",":"," ","1","0",".","1","2","3","4","/","X">>) }

CandTitles ==
    { NaN, Str(<<"T","h","e"," ","A","b"," ","c","d",":"," ","e","f">>),
      Str(<<"a","b"," ","c","d"," ","e","g">>) }

CandAuthors ==
    { NaN, Str(<<"S","M","I","T","H"," ","J",".">>), Str(<<" "," ">>) }

CandYears == { NaN, Str(<<"2","0","2","1">>), IntCell(2021) }

CandJournals == { NaN, Str(<<"J","A","M","A">>) }

Candidate(doi, title, authors, year, journal) ==
    [eid |-> Str(<<"e">>), doi |-> doi, title |-> title, authors |-> authors,
     year |-> year, journal |-> journal]

Candidates ==
    { Candidate(d, t, a, y, j) :
        d \in CandDois, t \in CandTitles, a \in CandAuthors,
        y \in CandYears, j \in CandJournals }

\* A few candidates to stand beside another one in a batch: a DOI hit, a
\* candidate with nothing in it, one whose journal is missing and one
\* whose authors are blank.
Companions ==
    { Candidate(Str(<<"D","O","I",":"," ","1","0",".","1","2","3","4","/","X">>), NaN, NaN, NaN, NaN),
      Candidate(NaN, NaN, NaN, NaN, NaN),
      Candidate(NaN, NaN, Str(<<"S","M","I","T","H"," ","J",".">>), IntCell(2021), NaN),
      Candidate(Str(<<>>), Str(<<"a","b"," ","c","d"," ","e","g">>), Str(<<" "," ">>), NaN, NaN) }

\* The number of companions beside the candidate of a batch.
MaxCompanions == 1

\* The length of the batches whose rows are all companions.
MaxBatch == 2

SeqsUpTo(S, n) == UNION {[1..k -> S] : k \in 0..n}

\* Reference rows of other years: one with the title of RefFull three years
\* later, one with a longer title a year later, and one that shares only
\* its first author and its year with RefFull.
RefLate ==
    [RefFull EXCEPT !.DOI_URL = NaN,
                    !.Authors_Standardized = Str(<<"L","e","e"," ","K",".">>),
                    !.Publication_Year = IntCell(2024)]

RefNext ==
    [RefLate EXCEPT !.Title = Str(<<"A","b"," ","c","d"," ","e","f"," ","g">>),
                    !.Publication_Year = IntCell(2022)]

RefSmith ==
    [RefFull EXCEPT !.Title = Str(<<"Z","z"," ","y","y">>), !.DOI_URL = NaN]

TierCorpora ==
    { <<RefFull>>, <<RefTwin, RefFull>>, <<RefFull, RefBare>>,
      <<RefLate, RefFull>>, <<RefNext, RefSmith>> }

\* Candidates whose titles and years stand at several distances from those
\* of the reference rows.
TierTitles ==
    CandTitles \cup { Str(<<"a","b"," ","c","d"," ","e","f"," ","g">>),
                      Str(<<"z","z">>) }

TierYears ==
    { NaN, Str(<<>>), Str(<<"2","0","2","1">>), Str(<<"2","0","2","2">>),
      Str(<<"2","0","2","3">>) }

TierCandidates ==
    { Candidate(d, t, a, y, j) :
        d \in {NaN, Str(<<"D","O","I",":"," ","1","0",".","1","2","3","4","/","X">>)},
        t \in TierTitles, a \in CandAuthors, y \in TierYears,
        j \in CandJournals }

TierBatches == { <<c>> : c \in TierCandidates }

\* The columns find_matches and the constructor read of the reference table.
Columns ==
    {"Title", "DOI_URL", "Authors_Standardized", "Publication_Year", "Journal_Venue"}

\* The table without one of its columns.
DropColumn(rows, column) ==
    [k \in 1..Len(rows) |-> [rows[k] EXCEPT ![column] = Absent]]

\* Reference files with every column, and with one column missing.
ColumnCorpora ==
    { <<RefFull>> } \cup { DropColumn(<<RefFull>>, column) : column \in Columns }

\* Candidates of every status, for the batches that are reported on: a DOI
\* hit, a candidate with nothing in it, three titles at three distances
\* from the title of RefFull, and one whose journal is missing.
ReportCandidates ==
    { Candidate(Str(<<"D","O","I",":"," ","1","0",".","1","2","3","4","/","X">>), NaN, NaN, NaN, NaN),
      Candidate(NaN, NaN, NaN, NaN, NaN),
      Candidate(NaN, NaN, Str(<<"S","M","I","T","H"," ","J",".">>), IntCell(2021), NaN) }
    \cup { Candidate(Str(<<>>), t, NaN, Str(<<"2","0","2","1">>), NaN) :
              t \in TierTitles \ {NaN, Str(<<"z","z">>)} }

ReportBatches == SeqsUpTo(ReportCandidates, MaxBatch)

\* The batches of the workers: each companion alone, and two batches of
\* two rows.
WorkerBatches ==
    { <<c>> : c \in Companions }
    \cup { << Candidate(Str(<<"D","O","I",":"," ","1","0",".","1","2","3","4","/","X">>), NaN, NaN, NaN, NaN),
             Candidate(Str(<<>>), Str(<<"a","b"," ","c","d"," ","e","g">>), Str(<<" "," ">>), NaN, NaN) >>,
           << Candidate(NaN, NaN, NaN, NaN, NaN),
             Candidate(Str(<<"D","O","I",":"," ","1","0",".","1","2","3","4","/","X">>), NaN, NaN, NaN, NaN) >> }

\* Every candidate at every place among up to MaxCompanions companions.
Batches ==
    UNION { { SubSeq(cs, 1, k) \o <<c>> \o SubSeq(cs, k + 1, Len(cs)) : k \in 0..Len(cs) } :
            c \in Candidates, cs \in SeqsUpTo(Companions, MaxCompanions) }

CompanionBatches == SeqsUpTo(Companions, MaxBatch) \ {<<>>}

\* The batches matched against the tables that lack a column: those of the
\* companions, and a candidate with the author and the year of RefFull
\* whose journal is the empty string or that of RefFull.
ColumnBatches ==
    CompanionBatches
        \cup { <<Candidate(NaN, NaN, Str(<<"S","M","I","T","H"," ","J",".">>),
                           Str(<<"2","0","2","1">>), j)>> :
                   j \in {Str(<<>>), Str(<<"J","A","M","A">>)} }

\* The batches of a second call: the rows of the first, in any order.
Reorderings(batch) == SeqsUpTo(Range(batch), Len(batch)) \ {<<>>}

----------------------------------------------------------------------------
(* The deduplicator as a state machine *)

NoCall == [batch |-> <<>>, pc |-> "none", exc |-> "", results |-> <<>>]

\* No report yet: no summary and no categories.
NoSummary ==
    [total_search_results |-> 0, reference_articles |-> 0,
     new_unique_articles |-> 0, definite_matches |-> 0,
     very_likely_matches |-> 0, probable_matches |-> 0,
     possible_matches |-> 0, match_type_distribution |-> <<>>]

NoReport ==
    [pc |-> "none", exc |-> "", summary |-> NoSummary, new_unique |-> {},
     review_needed |-> {}, confirmed_dupes |-> {}]

\* The workers that call find_matches at the same time.
NumWorkers == 2

Workers == 1..NumWorkers

IdleWorker ==
    [search_results_df |-> <<>>, idx |-> 0, results |-> <<>>, pc |-> "idle",
     exc |-> ""]

EmptyLookup == [key \in {} |-> None]

MatcherIdle ==
    /\ phase = "new"
    /\ reference_df = <<>>
    /\ doi_lookup = EmptyLookup
    /\ title_year_lookup = EmptyLookup
    /\ match_thresholds = [doi |-> 0, title_fuzzy |-> 0, author_year |-> 0]
    /\ search_results_df = <<>>
    /\ idx = 0
    /\ results = <<>>
    /\ pc = "idle"
    /\ exc = ""
    /\ first_call = NoCall
    /\ report = NoReport
    /\ workers = [w \in Workers |-> IdleWorker]

DoiIdle ==
    /\ doi_bare = <<>>
    /\ doi_prefix = <<>>
    /\ doi_in = NaN
    /\ doi_out = <<>>
    /\ doi_out2 = <<>>
    /\ doi_pc = "idle"

SimIdle ==
    /\ sim_a = <<>>
    /\ sim_b = <<>>
    /\ sim_ab = Whole(0)
    /\ sim_ba = Whole(0)
    /\ sim_pc = "idle"

TitleIdle ==
    /\ title_in = NaN
    /\ title_out = <<>>
    /\ title_pc = "idle"

AuthorIdle ==
    /\ author_surname = <<>>
    /\ author_given = <<>>
    /\ author_comma = [raised |-> "", value |-> <<>>]
    /\ author_initial = [raised |-> "", value |-> <<>>]
    /\ author_pc = "idle"

\* The agents of run_parallel_search.
NumAgents == 6

Agents == 1..NumAgents

SearchIdle ==
    /\ entries = [a \in Agents |-> <<>>]
    /\ agent_results = [a \in Agents |-> <<>>]
    /\ agent_state = [a \in Agents |-> "running"]
    /\ all_results = <<>>
    /\ seen_eids = {}

RestIdle == TitleIdle /\ AuthorIdle /\ SearchIdle

Init == MatcherIdle /\ DoiIdle /\ SimIdle /\ RestIdle

\* AHRQDeduplicator(reference_path, config_path): reads the two files and
\* prepares the reference data, or ends with the exception of
\* _extract_first_author.
ConstructOf(corpora) ==
    /\ phase = "new"
    /\ \E corpus \in corpora, config \in Configs :
        LET rows == ReadCsv(corpus)
            df == [k \in 1..Len(rows) |-> DerivedColumns(rows[k])]
        IN  IF PrepareRaises(rows) # ""
            THEN /\ phase' = "failed"
                 /\ exc' = PrepareRaises(rows)
                 /\ UNCHANGED <<reference_df, doi_lookup, title_year_lookup,
                                match_thresholds>>
            ELSE /\ phase' = "ready"
                 /\ reference_df' = df
                 /\ doi_lookup' = BuildDoiLookup(df)
                 /\ title_year_lookup' = BuildTitleYearLookup(df)
                 /\ match_thresholds' = config
                 /\ exc' = ""
    /\ UNCHANGED <<search_results_df, idx, results, pc, first_call>>
    /\ UNCHANGED <<doi_vars, sim_vars, rest_vars, report, workers>>

Construct == ConstructOf(Corpora)

\* find_matches(search_results_df) is called: results = [].
FindMatchesOf(batches) ==
    /\ phase = "ready"
    /\ pc = "idle"
    /\ \E batch \in batches : search_results_df' = batch
    /\ idx' = 1
    /\ results' = <<>>
    /\ pc' = "loop"
    /\ UNCHANGED <<phase, reference_df, doi_lookup, title_year_lookup,
                   match_thresholds, exc, first_call>>
    /\ UNCHANGED <<doi_vars, sim_vars, rest_vars, report, workers>>

FindMatches == FindMatchesOf(Batches)

FindMatchesCompanions == FindMatchesOf(CompanionBatches)

ConstructTiers == ConstructOf(TierCorpora)

FindMatchesReport == FindMatchesOf(ReportBatches)

ConstructColumns == ConstructOf(ColumnCorpora)

FindMatchesColumns == FindMatchesOf(ColumnBatches)

FindMatchesTiers == FindMatchesOf(TierBatches)

\* results.append(match_info)
Appends(m) == m.raised = "" /\ results' = Append(results, m.info)

\* The pass ends with an exception.
Raises(m) == m.raised # "" /\ exc' = m.raised

\* One pass of the for loop of find_matches that ends with an append.
Iterate ==
    /\ pc = "loop"
    /\ idx <= Len(search_results_df)
    /\ Appends(MatchRow(idx, search_results_df[idx]))
    /\ idx' = idx + 1
    /\ UNCHANGED <<phase, reference_df, doi_lookup, title_year_lookup,
                   match_thresholds, search_results_df, pc, exc, first_call>>
    /\ UNCHANGED <<doi_vars, sim_vars, rest_vars, report, workers>>

\* One pass of the for loop that ends with an exception: nothing catches
\* it, find_matches ends with it and its list results is lost.
IterateRaises ==
    /\ pc = "loop"
    /\ idx <= Len(search_results_df)
    /\ Raises(MatchRow(idx, search_results_df[idx]))
    /\ results' = <<>>
    /\ pc' = "raised"
    /\ UNCHANGED <<phase, reference_df, doi_lookup, title_year_lookup,
                   match_thresholds, search_results_df, idx, first_call>>
    /\ UNCHANGED <<doi_vars, sim_vars, rest_vars, report, workers>>

\* return pd.DataFrame(results)
Return ==
    /\ pc = "loop"
    /\ idx > Len(search_results_df)
    /\ pc' = "returned"
    /\ UNCHANGED <<phase, reference_df, doi_lookup, title_year_lookup,
                   match_thresholds, search_results_df, idx, results, exc,
                   first_call>>
    /\ UNCHANGED <<doi_vars, sim_vars, rest_vars, report, workers>>

\* find_matches is called a second time on the same deduplicator, with the
\* rows of the first batch in some order.
FindMatchesAgain ==
    /\ pc \in {"returned", "raised"}
    /\ first_call = NoCall
    /\ first_call' = [batch |-> search_results_df, pc |-> pc, exc |-> exc,
                      results |-> results]
    /\ \E batch \in Reorderings(search_results_df) : search_results_df' = batch
    /\ idx' = 1
    /\ results' = <<>>
    /\ pc' = "loop"
    /\ exc' = ""
    /\ UNCHANGED <<phase, reference_df, doi_lookup, title_year_lookup,
                   match_thresholds>>
    /\ UNCHANGED <<doi_vars, sim_vars, rest_vars, report, workers>>

----------------------------------------------------------------------------
(* find_matches called by several workers on one deduplicator *)

\* Worker w calls find_matches: its own results = [].
WorkerCall(w) ==
    /\ phase = "ready"
    /\ workers[w].pc = "idle"
    /\ \E batch \in WorkerBatches :
           workers' = [workers EXCEPT ![w] = [search_results_df |-> batch,
                                              idx |-> 1, results |-> <<>>,
                                              pc |-> "loop", exc |-> ""]]
    /\ UNCHANGED <<phase, reference_df, doi_lookup, title_year_lookup,
                   match_thresholds, search_results_df, idx, results, pc, exc,
                   first_call, report>>
    /\ UNCHANGED <<doi_vars, sim_vars, rest_vars>>

\* Every worker appends to the list of the first one.
SharedAccumulator(w) == 1

\* The list a pass of worker w appends to: results, a local of its call.
Accumulator(w) == w

WorkerAppends(w, m) ==
    /\ m.raised = ""
    /\ workers' = [workers EXCEPT ![w].idx = @ + 1,
                                  ![Accumulator(w)].results = Append(@, m.info)]

WorkerEndsRaising(w, m) ==
    /\ m.raised # ""
    /\ workers' = [workers EXCEPT ![w].results = <<>>, ![w].pc = "raised",
                                  ![w].exc = m.raised]

\* One pass of the for loop of worker w that ends with an append.
WorkerIterate(w) ==
    /\ workers[w].pc = "loop"
    /\ workers[w].idx <= Len(workers[w].search_results_df)
    /\ WorkerAppends(w, MatchRow(workers[w].idx,
                                 workers[w].search_results_df[workers[w].idx]))
    /\ UNCHANGED <<phase, reference_df, doi_lookup, title_year_lookup,
                   match_thresholds, search_results_df, idx, results, pc, exc,
                   first_call, report>>
    /\ UNCHANGED <<doi_vars, sim_vars, rest_vars>>

\* One pass of the for loop of worker w that ends with an exception.
WorkerRaises(w) ==
    /\ workers[w].pc = "loop"
    /\ workers[w].idx <= Len(workers[w].search_results_df)
    /\ WorkerEndsRaising(w, MatchRow(workers[w].idx,
                                     workers[w].search_results_df[workers[w].idx]))
    /\ UNCHANGED <<phase, reference_df, doi_lookup, title_year_lookup,
                   match_thresholds, search_results_df, idx, results, pc, exc,
                   first_call, report>>
    /\ UNCHANGED <<doi_vars, sim_vars, rest_vars>>

\* Worker w: return pd.DataFrame(results)
WorkerReturn(w) ==
    /\ workers[w].pc = "loop"
    /\ workers[w].idx > Len(workers[w].search_results_df)
    /\ workers' = [workers EXCEPT ![w].pc = "returned"]
    /\ UNCHANGED <<phase, reference_df, doi_lookup, title_year_lookup,
                   match_thresholds, search_results_df, idx, results, pc, exc,
                   first_call, report>>
    /\ UNCHANGED <<doi_vars, sim_vars, rest_vars>>

----------------------------------------------------------------------------
(* generate_deduplication_report *)

\* pd.merge(search_results_df, match_results_df, left_index=True,
\* right_on='search_idx', how='left'): the pairs <<i, k>> of row i of the
\* candidates and row k of the results, k = None for a row with no result.
MergedDf(n, rs) ==
    UNION { IF \A k \in 1..Len(rs) : rs[k].search_idx # i
            THEN {<<i, None>>}
            ELSE {<<i, k>> : k \in {j \in 1..Len(rs) : rs[j].search_idx = i}} :
            i \in 1..n }

\* merged_df[merged_df['match_status'] == status]
WithStatus(merged, rs, status) ==
    {m \in merged : m[2] # None /\ rs[m[2]].match_status = status}

\* The first table alone.
ConcatFirst(first, second) == first

\* pd.concat([first, second])
Concat(first, second) == first \cup second

\* match_results_df['match_type'].value_counts().to_dict()
ValueCounts(rs) ==
    [t \in {rs[k].match_type : k \in 1..Len(rs)} |->
        Cardinality({k \in 1..Len(rs) : rs[k].match_type = t})]

\* Lines 347-357
Summary(n, rs, new_unique, definite, very_likely, probable, possible) ==
    [total_search_results |-> n, reference_articles |-> Len(reference_df),
     new_unique_articles |-> Cardinality(new_unique),
     definite_matches |-> Cardinality(definite),
     very_likely_matches |-> Cardinality(very_likely),
     probable_matches |-> Cardinality(probable),
     possible_matches |-> Cardinality(possible),
     match_type_distribution |-> ValueCounts(rs)]

\* Lines 393-398, after the summary is saved: sort_values raises KeyError
\* on a table with no relevance_score column, and row['title'][:80]
\* raises TypeError on a title that is not a string.
ReportTail(has_relevance, rows, new_unique) ==
    IF ~has_relevance THEN "KeyError"
    ELSE IF \E m \in new_unique : rows[m[1]].title.t # "str" THEN "TypeError"
    ELSE ""

\* Lines 313-402 on the merged table.
Categorized(rows, rs, tail, new_unique, definite, very_likely, probable, possible) ==
    [pc |-> IF tail = "" THEN "returned" ELSE "raised",
     exc |-> tail,
     summary |-> Summary(Len(rows), rs, new_unique, definite, very_likely,
                         probable, possible),
     new_unique |-> new_unique,
     review_needed |-> Concat(probable, possible),
     confirmed_dupes |-> Concat(definite, very_likely)]

ReportOn(has_relevance, rows, rs, merged) ==
    Categorized(rows, rs,
                ReportTail(has_relevance, rows, WithStatus(merged, rs, "no_match")),
                WithStatus(merged, rs, "no_match"),
                WithStatus(merged, rs, "definite_match"),
                WithStatus(merged, rs, "very_likely_match"),
                WithStatus(merged, rs, "probable_match"),
                WithStatus(merged, rs, "possible_match"))

\* generate_deduplication_report(search_df, match_results), as
\* deduplicate_search_results calls it after find_matches has returned.  The
\* table of an empty list of results has no search_idx column to merge on.
GenerateReport ==
    /\ pc = "returned"
    /\ report.pc = "none"
    /\ \E has_relevance \in BOOLEAN :
           report' = IF results = <<>>
                     THEN [NoReport EXCEPT !.pc = "raised", !.exc = "KeyError"]
                     ELSE ReportOn(has_relevance, search_results_df, results,
                                   MergedDf(Len(search_results_df), results))
    /\ UNCHANGED <<phase, reference_df, doi_lookup, title_year_lookup,
                   match_thresholds, search_results_df, idx, results, pc, exc,
                   first_call, workers>>
    /\ UNCHANGED <<doi_vars, sim_vars, rest_vars>>

----------------------------------------------------------------------------
(* _normalize_doi on its own *)

DoiHeads ==
    { <<"1","0",".","1","2","3","4">>, <<"1","0",".","1","2","3","4","5">>,
      <<"1","0",".","1","2","3">> }

DoiSuffixChars == {"x", "X", "7", "-", "(", " "}

\* The longest suffix after the "/" of a DOI text.
MaxSuffixLen == 2

OtherTexts ==
    { <<>>, <<"n","/","a">>, <<"N","/","A">>, <<"1","0",".","1","2","3","4">> }

DoiTexts ==
    { h \o <<"/">> \o t : h \in DoiHeads, t \in SeqsUpTo(DoiSuffixChars, MaxSuffixLen) }
        \cup OtherTexts

DoiPrefixes ==
    { <<>>, <<" ">>, <<"D","O","I",":"," ">>,
      <<"h","t","t","p","s",":","/","/","d","o","i",".","o","r","g","/">>,
      <<"h","t","t","p",":","/","/","d","x",".","d","o","i",".","o","r","g","/">> }

\* The argument: a text behind a prefix, or a missing value.
InitDoi ==
    /\ MatcherIdle /\ SimIdle /\ RestIdle
    /\ doi_bare \in DoiTexts
    /\ doi_prefix \in DoiPrefixes
    /\ doi_in \in {Str(doi_prefix \o doi_bare), NaN}
    /\ doi_in = NaN => doi_bare = <<>> /\ doi_prefix = <<>>
    /\ doi_out = <<>>
    /\ doi_out2 = <<>>
    /\ doi_pc = "in"

\* _normalize_doi(doi_in)
Normalize ==
    /\ doi_pc = "in"
    /\ doi_out' = NormalizeDoi(doi_in)
    /\ doi_pc' = "once"
    /\ UNCHANGED <<doi_bare, doi_prefix, doi_in, doi_out2>>
    /\ UNCHANGED <<matcher_vars, sim_vars, rest_vars>>

\* _normalize_doi(doi_out)
NormalizeAgain ==
    /\ doi_pc = "once"
    /\ doi_out2' = NormalizeDoi(Str(doi_out))
    /\ doi_pc' = "twice"
    /\ UNCHANGED <<doi_bare, doi_prefix, doi_in, doi_out>>
    /\ UNCHANGED <<matcher_vars, sim_vars, rest_vars>>

NextDoi == Normalize \/ NormalizeAgain

SpecDoi == InitDoi /\ [][NextDoi]_vars

----------------------------------------------------------------------------
(* _calculate_title_similarity on its own *)

TitleChars == {"b", "c", " "}

\* The longest title scored.
MaxTitleLen == 4

\* The titles _normalize_title leaves as they are.
NormalizedTitles ==
    { t \in SeqsUpTo(TitleChars, MaxTitleLen) : NormalizeTitle(Str(t)) = t }

InitSim ==
    /\ MatcherIdle /\ DoiIdle /\ RestIdle
    /\ sim_a \in NormalizedTitles
    /\ sim_b \in NormalizedTitles
    /\ sim_ab = Whole(0)
    /\ sim_ba = Whole(0)
    /\ sim_pc = "in"

\* _calculate_title_similarity(sim_a, sim_b)
Score ==
    /\ sim_pc = "in"
    /\ sim_ab' = CalculateTitleSimilarity(sim_a, sim_b)
    /\ sim_pc' = "ab"
    /\ UNCHANGED <<sim_a, sim_b, sim_ba>>
    /\ UNCHANGED <<matcher_vars, doi_vars, rest_vars>>

\* _calculate_title_similarity(sim_b, sim_a)
ScoreSwapped ==
    /\ sim_pc = "ab"
    /\ sim_ba' = CalculateTitleSimilarity(sim_b, sim_a)
    /\ sim_pc' = "both"
    /\ UNCHANGED <<sim_a, sim_b, sim_ab>>
    /\ UNCHANGED <<matcher_vars, doi_vars, rest_vars>>

NextSim == Score \/ ScoreSwapped

SpecSim == InitSim /\ [][NextSim]_vars

----------------------------------------------------------------------------
(* _normalize_title on its own *)

\* The characters of the titles normalized: a letter in both cases that
\* makes the stop words "a" and "an" with "n", another letter, the
\* underscore, a space and a punctuation mark.
TitleInputChars == {"A", "a", "n", "b", "_", " ", "-"}

\* The longest title normalized.
MaxRawTitleLen == 4

\* The argument title: a missing value or a string.
TitleInputs == {NaN} \cup {Str(t) : t \in SeqsUpTo(TitleInputChars, MaxRawTitleLen)}

InitTitle ==
    /\ MatcherIdle /\ DoiIdle /\ SimIdle /\ AuthorIdle /\ SearchIdle
    /\ title_in \in TitleInputs
    /\ title_out = <<>>
    /\ title_pc = "in"

\* _normalize_title(title_in)
NormalizeTitleCall ==
    /\ title_pc = "in"
    /\ title_out' = NormalizeTitle(title_in)
    /\ title_pc' = "out"
    /\ UNCHANGED title_in
    /\ UNCHANGED <<matcher_vars, doi_vars, sim_vars, author_vars, search_vars>>

NextTitle == NormalizeTitleCall

SpecTitle == InitTitle /\ [][NextTitle]_vars

----------------------------------------------------------------------------
(* _extract_first_author on its own *)

\* The letters of the surnames.
SurnameChars == {"S", "m", "o"}

\* The longest surname.
MaxSurnameLen == 4

Surnames == SeqsUpTo(SurnameChars, MaxSurnameLen) \ {<<>>}

GivenNames == { <<"J","o">>, <<"A","n","n">> }

\* "Surname, Given"
CommaForm(surname, given) == surname \o <<",", " ">> \o given

\* "Surname G."
InitialForm(surname, given) == surname \o <<" ", given[1], ".">>

InitAuthor ==
    /\ MatcherIdle /\ DoiIdle /\ SimIdle /\ TitleIdle /\ SearchIdle
    /\ author_surname \in Surnames
    /\ author_given \in GivenNames
    /\ author_comma = [raised |-> "", value |-> <<>>]
    /\ author_initial = [raised |-> "", value |-> <<>>]
    /\ author_pc = "in"

\* _extract_first_author("Surname, Given")
ExtractComma ==
    /\ author_pc = "in"
    /\ author_comma' = ExtractFirstAuthor(Str(CommaForm(author_surname, author_given)))
    /\ author_pc' = "comma"
    /\ UNCHANGED <<author_surname, author_given, author_initial>>
    /\ UNCHANGED <<matcher_vars, doi_vars, sim_vars, title_vars, search_vars>>

\* _extract_first_author("Surname G.")
ExtractInitial ==
    /\ author_pc = "comma"
    /\ author_initial' = ExtractFirstAuthor(Str(InitialForm(author_surname, author_given)))
    /\ author_pc' = "both"
    /\ UNCHANGED <<author_surname, author_given, author_comma>>
    /\ UNCHANGED <<matcher_vars, doi_vars, sim_vars, title_vars, search_vars>>

NextAuthor == ExtractComma \/ ExtractInitial

SpecAuthor == InitAuthor /\ [][NextAuthor]_vars

----------------------------------------------------------------------------
(* CompendiumMasterSearch.run_parallel_search
   (src/ahrq_project/01_search_scripts/ahrq_compendium_focused_search.py) *)

\* The eids of the entries the queries return to the six agents: an eid
\* several agents find, an eid one query returns twice, entries without
\* an eid, an agent that finds nothing.
EntryTables ==
    { << <<"1", "1">>, <<"1", "2">>, <<"">>, <<"2", "3">>, <<>>, <<"3", "">> >>,
      << <<"1">>, <<"2">>, <<"3">>, <<"4">>, <<"5">>, <<"">> >>,
      << <<"1", "2">>, <<"2", "1">>, <<"1">>, <<"">>, <<"4">>, <<"4", "1">> >> }

\* extract_info(entry) with the agent's name: the fields the merge reads.
ExtractInfo(a, eid) == [eid |-> eid, agent |-> a]

\* The articles an agent has appended after n entries.
ResultsAfter(a, eids, n) == [i \in 1..n |-> ExtractInfo(a, eids[i])]

InitSearch ==
    /\ MatcherIdle /\ DoiIdle /\ SimIdle /\ TitleIdle /\ AuthorIdle
    /\ entries \in {[a \in Agents |-> table[a]] : table \in EntryTables}
    /\ agent_results = [a \in Agents |-> <<>>]
    /\ agent_state = [a \in Agents |-> "running"]
    /\ all_results = <<>>
    /\ seen_eids = {}

\* agent.run() returns in its thread: every entry is in agent.results.
AgentCompletes(a) ==
    /\ agent_state[a] = "running"
    /\ agent_results' =
           [agent_results EXCEPT ![a] = ResultsAfter(a, entries[a], Len(entries[a]))]
    /\ agent_state' = [agent_state EXCEPT ![a] = "done"]
    /\ UNCHANGED <<entries, all_results, seen_eids>>
    /\ UNCHANGED <<matcher_vars, doi_vars, sim_vars, title_vars, author_vars>>

\* agent.run() raises in its thread after n entries.
AgentFails(a) ==
    /\ agent_state[a] = "running"
    /\ \E n \in 0..Len(entries[a]) :
           agent_results' = [agent_results EXCEPT ![a] = ResultsAfter(a, entries[a], n)]
    /\ agent_state' = [agent_state EXCEPT ![a] = "failed"]
    /\ UNCHANGED <<entries, all_results, seen_eids>>
    /\ UNCHANGED <<matcher_vars, doi_vars, sim_vars, title_vars, author_vars>>

\* The merge with the test on seen_eids left out.
RECURSIVE MergeAllWithEid(_, _)
MergeAllWithEid(merged, articles) ==
    IF articles = <<>> THEN merged
    ELSE MergeAllWithEid(
             IF articles[1].eid # ""
             THEN [all |-> Append(merged.all, articles[1]),
                   seen |-> merged.seen \cup {articles[1].eid}]
             ELSE merged,
             Tail(articles))

\* Lines 361-364: the loop over agent.results; merged is [all, seen].
RECURSIVE MergeArticles(_, _)
MergeArticles(merged, articles) ==
    IF articles = <<>> THEN merged
    ELSE MergeArticles(
             IF articles[1].eid # "" /\ articles[1].eid \notin merged.seen
             THEN [all |-> Append(merged.all, articles[1]),
                   seen |-> merged.seen \cup {articles[1].eid}]
             ELSE merged,
             Tail(articles))

\* Lines 354-364: as_completed yields the future of an agent that
\* returned, and the main thread merges its results.
Collect(a) ==
    /\ agent_state[a] = "done"
    /\ LET merged == MergeArticles([all |-> all_results, seen |-> seen_eids],
                                   agent_results[a])
       IN  all_results' = merged.all /\ seen_eids' = merged.seen
    /\ agent_state' = [agent_state EXCEPT ![a] = "collected"]
    /\ UNCHANGED <<entries, agent_results>>
    /\ UNCHANGED <<matcher_vars, doi_vars, sim_vars, title_vars, author_vars>>

\* Lines 354-357, 366-368: as_completed yields the future of an agent that
\* raised; future.result() raises and the failure is logged.
ReportFailure(a) ==
    /\ agent_state[a] = "failed"
    /\ agent_state' = [agent_state EXCEPT ![a] = "reported"]
    /\ UNCHANGED <<entries, agent_results, all_results, seen_eids>>
    /\ UNCHANGED <<matcher_vars, doi_vars, sim_vars, title_vars, author_vars>>

NextSearch ==
    \E a \in Agents :
        AgentCompletes(a) \/ AgentFails(a) \/ Collect(a) \/ ReportFailure(a)

SpecSearch == InitSearch /\ [][NextSearch]_vars

----------------------------------------------------------------------------
(* The specifications of the matcher *)

Next == Construct \/ FindMatches \/ Iterate \/ IterateRaises \/ Return

Spec == Init /\ [][Next]_vars

NextOrder ==
    \/ Construct \/ FindMatchesCompanions \/ Iterate \/ IterateRaises
    \/ Return \/ FindMatchesAgain

SpecOrder == Init /\ [][NextOrder]_vars

NextTiers ==
    ConstructTiers \/ FindMatchesTiers \/ Iterate \/ IterateRaises \/ Return

SpecTiers == Init /\ [][NextTiers]_vars

NextReport ==
    \/ Construct \/ FindMatchesReport \/ Iterate \/ IterateRaises \/ Return
    \/ GenerateReport

SpecReport == Init /\ [][NextReport]_vars

NextWorkers ==
    \/ Construct
    \/ \E w \in Workers :
           WorkerCall(w) \/ WorkerIterate(w) \/ WorkerRaises(w) \/ WorkerReturn(w)

SpecWorkers == Init /\ [][NextWorkers]_vars

NextColumns ==
    ConstructColumns \/ FindMatchesColumns \/ Iterate \/ IterateRaises \/ Return

SpecColumns == Init /\ [][NextColumns]_vars

----------------------------------------------------------------------------
(* The claims about find_matches *)

CallEnded == pc \in {"returned", "raised"}

MatchTypes == {"doi", "title_year_exact", "title_fuzzy", "author_year"}

\* The rows of results for row i of the batch.
RowsOf(rs, i) == {k \in 1..Len(rs) : rs[k].search_idx = i}

\* One of the five terminal outcomes.
TerminalOutcome(info) ==
    \/ info.match_status = "no_match" /\ info.match_type = ""
    \/ info.match_status # "no_match" /\ info.match_type \in MatchTypes

\* C1: when a call of find_matches has ended, results has as many rows as
\* the batch, each row of the batch has exactly one row of results, and
\* that row is one of the five terminal outcomes.
C1_OneResultPerCandidate ==
    CallEnded =>
        /\ Len(results) = Len(search_results_df)
        /\ \A i \in 1..Len(search_results_df) :
               /\ Cardinality(RowsOf(results, i)) = 1
               /\ \A k \in RowsOf(results, i) : TerminalOutcome(results[k])

\* C2: no pass of the loop ends with an exception, and a row that no tier
\* hit is no_match with confidence 0.
C2_NeverRaises ==
    /\ pc # "raised"
    /\ \A k \in 1..Len(results) :
           results[k].match_type = "" =>
               /\ results[k].match_status = "no_match"
               /\ results[k].match_confidence = Whole(0)

\* A candidate with every field present and none of them blank.
WellFormed(row) ==
    \A cell \in {row.doi, row.title, row.authors, row.year, row.journal} :
        ~IsNa(cell) /\ Strip(PyStr(cell)) # <<>>

\* C3: a call that has ended has a result for each well-formed row of its
\* batch, wherever the malformed rows stand.
C3_BatchCompletes ==
    CallEnded =>
        \A i \in 1..Len(search_results_df) :
            WellFormed(search_results_df[i]) => RowsOf(results, i) # {}

\* The candidate's normalized DOI is not empty and is the normalized DOI of
\* a reference row.
SharesDoi(row) ==
    /\ NormalizeDoi(row.doi) # <<>>
    /\ \E k \in 1..Len(reference_df) :
           reference_df[k].doi_normalized = NormalizeDoi(row.doi)

\* C4: a row whose normalized DOI is that of a reference row is a
\* definite_match of type doi with the configured confidence, whatever its
\* title, year and authors are, and the pass on such a row never raises.
C4_DoiTierFirst ==
    /\ \A k \in 1..Len(results) :
           SharesDoi(search_results_df[results[k].search_idx]) =>
               /\ results[k].match_status = "definite_match"
               /\ results[k].match_type = "doi"
               /\ results[k].match_confidence = Whole(match_thresholds.doi)
    /\ pc = "raised" => ~SharesDoi(search_results_df[idx])

\* C4's case: a doi match for a row whose title is not the title of the
\* reference it matched, and whose year and authors are missing or not.
C4_Witness ==
    \E k \in 1..Len(results) :
        /\ results[k].match_type = "doi"
        /\ NormalizeTitle(results[k].search_title) # <<>>
        /\ NormalizeTitle(results[k].search_title)
               # reference_df[results[k].reference_idx].title_normalized

\* The result of row i of a call: its row of results without search_idx,
\* or nothing.
ResultOf(rs, i) ==
    { [rs[k] EXCEPT !.search_idx = 0] : k \in RowsOf(rs, i) }

\* C5: two calls on one deduplicator whose batches share a candidate give
\* it the same result.
C5_OrderIndependent ==
    (CallEnded /\ first_call.pc \in {"returned", "raised"}) =>
        \A i \in 1..Len(first_call.batch), j \in 1..Len(search_results_df) :
            first_call.batch[i] = search_results_df[j] =>
                ResultOf(first_call.results, i) = ResultOf(results, j)

\* Both years are numbers and are the same number.
SameYear(cell, ref_cell) ==
    /\ ~IsNa(cell) /\ ~IsNa(ref_cell)
    /\ ParseYear(PyStr(cell)).err = ""
    /\ ParseYear(PyStr(ref_cell)).err = ""
    /\ ParseYear(PyStr(cell)).n = ParseYear(PyStr(ref_cell)).n

\* The reference rows with the row's normalized title and its year.
SameTitleAndYear(row) ==
    { k \in 1..Len(reference_df) :
        /\ reference_df[k].title_normalized = NormalizeTitle(row.title)
        /\ SameYear(row.year, reference_df[k].Publication_Year) }

ExactPrecondition(row) ==
    /\ ~SharesDoi(row)
    /\ NormalizeTitle(row.title) # <<>>
    /\ SameTitleAndYear(row) # {}

\* C6: a row with no DOI hit whose normalized title and year are those of a
\* reference row is a very_likely_match of type title_year_exact with
\* confidence 90, on the lowest such reference row.
C6_ExactTitleYear ==
    /\ \A k \in 1..Len(results) :
           ExactPrecondition(search_results_df[results[k].search_idx]) =>
               /\ results[k].match_status = "very_likely_match"
               /\ results[k].match_type = "title_year_exact"
               /\ results[k].match_confidence = Whole(90)
               /\ \A r \in SameTitleAndYear(search_results_df[results[k].search_idx]) :
                      results[k].reference_idx <= r
               /\ results[k].reference_idx
                      \in SameTitleAndYear(search_results_df[results[k].search_idx])
    /\ pc = "raised" => ~ExactPrecondition(search_results_df[idx])

----------------------------------------------------------------------------
(* The claims about _normalize_doi *)

FormatPrefixes == DoiPrefixes \ {<<" ">>}

\* 10.NNNN/suffix: "10.", four digits or more, "/" and a suffix with no
\* whitespace in it.
IsDoiForm(d) ==
    LET head == BeforeFirst(d, "/")
    IN  /\ Len(head) >= 3 + MinDoiDigits
        /\ SubSeq(head, 1, 3) = <<"1", "0", ".">>
        /\ AllDigits(SubSeq(head, 4, Len(head)))
        /\ Len(d) > Len(head) + 1
        /\ \A i \in 1..Len(d) : ~IsSpace(d[i])

FormatCase ==
    /\ doi_pc # "in"
    /\ ~IsNa(doi_in)
    /\ IsDoiForm(doi_bare)
    /\ doi_prefix \in FormatPrefixes

\* C7 as stated: the bare DOI, the two URL forms and the labelled form all
\* normalize to the lower-cased bare DOI.
C7_LowerCasedBareDoi == FormatCase => doi_out = Lower(doi_bare)

\* The DOI up to its first character that is neither a word character nor
\* one of "/", "." and "-".
UpToOtherChar(d) == SubSeq(d, 1, DoiRunEnd(d, 1))

\* C7, amended: the four forms all normalize to the lower-cased bare DOI
\* cut before its first character that is neither a word character nor one
\* of "/", "." and "-".
C7_FormatInsensitive == FormatCase => doi_out = Lower(UpToOtherChar(doi_bare))

\* C7's case: a DOI with an upper-case letter, given as a resolver URL.
C7_Witness ==
    /\ FormatCase
    /\ Contains(doi_prefix, <<"d","o","i",".","o","r","g","/">>)
    /\ doi_bare # Lower(doi_bare)
    /\ doi_out = Lower(doi_bare)

\* C8: _normalize_doi of what _normalize_doi returned is the same string.
C8_Idempotent == doi_pc = "twice" => doi_out2 = doi_out

\* C8's case: a second normalization of what a URL, a label or a text with
\* no DOI in it was normalized to.
C8_Witness ==
    /\ doi_pc = "twice"
    /\ doi_out # <<>>
    /\ doi_out # PyStr(doi_in)
    /\ doi_out2 = doi_out

\* A match of the DOI pattern in the lower-cased, stripped argument.
HasDoiLike(cell) ==
    /\ ~IsNa(cell)
    /\ \E i \in 1..Len(PyStr(cell)) : DoiMatchesAt(Strip(Lower(PyStr(cell))), i)

\* C9: _normalize_doi returns the empty string when no match of the DOI
\* pattern is in its argument.
C9_EmptyWithoutDoi == (doi_pc # "in" /\ ~HasDoiLike(doi_in)) => doi_out = <<>>

----------------------------------------------------------------------------
(* The claims about _calculate_title_similarity *)

\* C10: the score of (a, b) is the score of (b, a).
C10_Symmetric == sim_pc = "both" => sim_ab = sim_ba

\* C11: the score of a non-empty title with itself is 100.
C11_SelfScore ==
    (sim_pc # "in" /\ sim_a = sim_b /\ sim_a # <<>>) => sim_ab = Whole(100)

\* Between 0 and 100.
InRange(score) == FracGeq(score, Whole(0)) /\ FracGeq(Whole(100), score)

\* C12: every score and every match_confidence is between 0 and 100.
C12_ConfidenceInRange ==
    /\ \A k \in 1..Len(results) : InRange(results[k].match_confidence)
    /\ sim_pc # "in" => InRange(sim_ab)

----------------------------------------------------------------------------
(* The claims about the tiers after the DOI tier *)

\* Both years are numbers and they differ by more than 1.
YearsApart(cell, ref_cell) ==
    /\ ~IsNa(cell) /\ ~IsNa(ref_cell)
    /\ ParseYear(PyStr(cell)).err = ""
    /\ ParseYear(PyStr(ref_cell)).err = ""
    /\ \/ ParseYear(PyStr(cell)).n > ParseYear(PyStr(ref_cell)).n + 1
       \/ ParseYear(PyStr(ref_cell)).n > ParseYear(PyStr(cell)).n + 1

ApartFromAll(row) ==
    \A r \in 1..Len(reference_df) :
        YearsApart(row.year, reference_df[r].Publication_Year)

\* C13: the reference of a title_fuzzy result is never more than a year
\* from the candidate, and a row more than a year from every reference row
\* is a doi match, an author_year match or no_match.
C13_YearFilter ==
    \A k \in 1..Len(results) :
        /\ results[k].match_type = "title_fuzzy" =>
               ~YearsApart(results[k].search_year,
                           reference_df[results[k].reference_idx].Publication_Year)
        /\ ApartFromAll(search_results_df[results[k].search_idx]) =>
               results[k].match_type \in {"doi", "author_year", ""}

\* C13's case: a row with the title of a reference row, more than a year
\* from every reference row, that no title tier matched.
C13_Witness ==
    \E k \in 1..Len(results) :
        /\ ApartFromAll(search_results_df[results[k].search_idx])
        /\ \E r \in 1..Len(reference_df) :
               reference_df[r].title_normalized = NormalizeTitle(results[k].search_title)
        /\ NormalizeTitle(results[k].search_title) # <<>>
        /\ results[k].match_type = ""

\* The exact tier has a key for the row.
HasExactKey(row) ==
    /\ NormalizeTitle(row.title) # <<>>
    /\ <<NormalizeTitle(row.title), PyStr(row.year)>> \in DOMAIN title_year_lookup

\* The reference rows the fuzzy tier scores for the row: those the year
\* filter lets through.
Scored(row) ==
    { r \in 1..Len(reference_df) :
        YearFilter(PyStr(row.year), PyStr(Get(reference_df[r].Publication_Year))) = "score" }

ScoreAgainst(row, r) ==
    CalculateTitleSimilarity(NormalizeTitle(row.title), reference_df[r].title_normalized)

\* A scored reference row reaches the fuzzy threshold.
ReachesThreshold(row) ==
    /\ NormalizeTitle(row.title) # <<>>
    /\ \E r \in Scored(row) :
           FracGeq(ScoreAgainst(row, r), Whole(match_thresholds.title_fuzzy))

\* The reference rows with the row's first author, ignoring case, and its
\* year as a string.
SameAuthorAndYear(row) ==
    { r \in 1..Len(reference_df) :
        /\ ExtractFirstAuthor(row.authors).raised = ""
        /\ ExtractFirstAuthor(row.authors).value # <<>>
        /\ Lower(ExtractFirstAuthor(row.authors).value)
               = Lower(reference_df[r].first_author)
        /\ PyStr(row.year) = PyStr(Get(reference_df[r].Publication_Year)) }

NoTierHits(row) ==
    /\ ~SharesDoi(row)
    /\ ~HasExactKey(row)
    /\ ~ReachesThreshold(row)
    /\ SameAuthorAndYear(row) = {}

EmptyNoMatch(info) ==
    /\ info.match_status = "no_match"
    /\ info.match_confidence = Whole(0)
    /\ info.match_type = ""
    /\ info.reference_idx = None
    /\ info.reference_title = StrCell(<<>>)
    /\ info.reference_doi = StrCell(<<>>)

\* C14: a row that no tier hits ends as no_match with confidence 0, no
\* match type and no reference, the pass on it does not raise, and a
\* no_match result always has these empty fields.
C14_NoMatchOutcome ==
    /\ \A k \in 1..Len(results) :
           (\/ NoTierHits(search_results_df[results[k].search_idx])
            \/ results[k].match_status = "no_match") => EmptyNoMatch(results[k])
    /\ pc = "raised" => ~NoTierHits(search_results_df[idx])

\* A row with no DOI hit.
PastDoiTier(row) == ~SharesDoi(row)

\* C19: past the DOI tier, a title_fuzzy result has no exact key, an
\* author_year result has an empty title or no hit of either title tier,
\* a row that reaches the fuzzy threshold and shares author and year with
\* a reference row is title_fuzzy when it has no exact key, and the pass on
\* a row that a title tier hits does not raise.
C19_TierOrder ==
    /\ \A k \in 1..Len(results) :
           PastDoiTier(search_results_df[results[k].search_idx]) =>
               /\ results[k].match_type = "title_fuzzy" =>
                      ~HasExactKey(search_results_df[results[k].search_idx])
               /\ results[k].match_type = "author_year" =>
                      /\ ~HasExactKey(search_results_df[results[k].search_idx])
                      /\ ~ReachesThreshold(search_results_df[results[k].search_idx])
               /\ (/\ ReachesThreshold(search_results_df[results[k].search_idx])
                   /\ ~HasExactKey(search_results_df[results[k].search_idx])) =>
                      results[k].match_type = "title_fuzzy"
               /\ HasExactKey(search_results_df[results[k].search_idx]) =>
                      results[k].match_type = "title_year_exact"
    /\ pc = "raised" =>
           ~(/\ PastDoiTier(search_results_df[idx])
             /\ \/ HasExactKey(search_results_df[idx])
                \/ ReachesThreshold(search_results_df[idx]))

\* C19's case: a title_fuzzy result on one reference row for a candidate
\* that shares its first author and its year with another.
C19_Witness ==
    \E k \in 1..Len(results) :
        /\ results[k].match_type = "title_fuzzy"
        /\ SameAuthorAndYear(search_results_df[results[k].search_idx]) # {}
        /\ results[k].reference_idx
               \notin SameAuthorAndYear(search_results_df[results[k].search_idx])

\* The status of a fuzzy score.
Band(score) ==
    IF FracGeq(score, Whole(90)) THEN "very_likely_match"
    ELSE IF FracGeq(score, Whole(80)) THEN "probable_match"
    ELSE "possible_match"

\* The scored reference rows with this score.
Attaining(row, score) == {r \in Scored(row) : ScoreAgainst(row, r) = score}

\* The fuzzy tier is reached and a scored reference row reaches the
\* threshold.
FuzzyHit(row) ==
    PastDoiTier(row) /\ ~HasExactKey(row) /\ ReachesThreshold(row)

\* C20: a result is title_fuzzy exactly when the fuzzy tier is reached and
\* the best score of the scored reference rows is at or above the
\* threshold; its confidence is that best score, its reference the lowest
\* row that attains it, its status the band of the score; the pass on such
\* a row does not raise.
C20_FuzzyOutcome ==
    /\ \A k \in 1..Len(results) :
           /\ results[k].match_type = "title_fuzzy"
                  <=> FuzzyHit(search_results_df[results[k].search_idx])
           /\ results[k].match_type = "title_fuzzy" =>
                  /\ \A r \in Scored(search_results_df[results[k].search_idx]) :
                         FracGeq(results[k].match_confidence,
                                 ScoreAgainst(search_results_df[results[k].search_idx], r))
                  /\ results[k].reference_idx
                         \in Attaining(search_results_df[results[k].search_idx],
                                       results[k].match_confidence)
                  /\ \A r \in Attaining(search_results_df[results[k].search_idx],
                                        results[k].match_confidence) :
                         results[k].reference_idx <= r
                  /\ results[k].match_status = Band(results[k].match_confidence)
    /\ pc = "raised" => ~FuzzyHit(search_results_df[idx])

\* C20's case: a title_fuzzy result whose score two reference rows attain.
C20_Witness ==
    \E k \in 1..Len(results) :
        /\ results[k].match_type = "title_fuzzy"
        /\ Cardinality(Attaining(search_results_df[results[k].search_idx],
                                 results[k].match_confidence)) > 1

\* A year string that is there and that lines 226 parses.
YearKnown(s) == s # <<>> /\ ParseYear(s).err = ""

\* C21: the reference row of a title_fuzzy result and the candidate both
\* have a year that is neither empty nor unparseable, and no pass ends on
\* an exception of the year filter.
C21_MissingYearSkipped ==
    /\ \A k \in 1..Len(results) :
           results[k].match_type = "title_fuzzy" =>
               /\ YearKnown(PyStr(search_results_df[results[k].search_idx].year))
               /\ YearKnown(PyStr(Get(reference_df[results[k].reference_idx].Publication_Year)))
    /\ pc = "raised" => exc \notin {"ValueError", "OverflowError"}

\* The author + year tier is reached with a first author and a year.
AuthorTierReached(row) ==
    /\ PastDoiTier(row) /\ ~HasExactKey(row) /\ ~ReachesThreshold(row)
    /\ ExtractFirstAuthor(row.authors).raised = ""
    /\ ExtractFirstAuthor(row.authors).value # <<>>
    /\ PyStr(row.year) # <<>>

\* The results of the rows that reach the author + year tier: author_year
\* and possible_match on the lowest reference row with the author and the
\* year, no_match when there is none.
AuthorTierResults ==
    \A k \in 1..Len(results) :
        AuthorTierReached(search_results_df[results[k].search_idx]) =>
            IF SameAuthorAndYear(search_results_df[results[k].search_idx]) = {}
            THEN results[k].match_status = "no_match"
            ELSE /\ results[k].match_type = "author_year"
                 /\ results[k].match_status = "possible_match"
                 /\ results[k].reference_idx
                        \in SameAuthorAndYear(search_results_df[results[k].search_idx])
                 /\ \A r \in SameAuthorAndYear(search_results_df[results[k].search_idx]) :
                        results[k].reference_idx <= r

\* C22: a row that reaches the author + year tier with a first author and
\* a year gets the result of that tier, and the pass on it does not raise.
C22_AuthorYearOutcome ==
    /\ AuthorTierResults
    /\ pc = "raised" => ~AuthorTierReached(search_results_df[idx])

\* A journal that is there: a string that is not empty.
JournalThere(cell) == cell.t = "str" /\ PyStr(cell) # <<>>

\* The candidate's journal and that of reference row r are there and equal,
\* ignoring case.
JournalsMatch(row, r) ==
    /\ JournalThere(row.journal)
    /\ JournalThere(Get(reference_df[r].Journal_Venue))
    /\ Lower(PyStr(row.journal)) = Lower(PyStr(Get(reference_df[r].Journal_Venue)))

\* C23: the confidence of an author_year result is the configured base
\* plus the bonus when the two journals are there and equal ignoring case,
\* the base otherwise, and the pass on a row whose author and year a
\* reference row has does not raise for a journal that is missing.
C23_JournalBonus ==
    /\ \A k \in 1..Len(results) :
           results[k].match_type = "author_year" =>
               results[k].match_confidence
                   = Whole(IF JournalsMatch(search_results_df[results[k].search_idx],
                                            results[k].reference_idx)
                           THEN match_thresholds.author_year + JournalBonus
                           ELSE match_thresholds.author_year)
    /\ pc = "raised" =>
           ~(/\ AuthorTierReached(search_results_df[idx])
             /\ SameAuthorAndYear(search_results_df[idx]) # {})

\* The bonus is given although the journal is missing on both sides.
BonusWithoutJournal ==
    \E k \in 1..Len(results) :
        /\ results[k].match_type = "author_year"
        /\ ~JournalThere(search_results_df[results[k].search_idx].journal)
        /\ results[k].match_confidence
               = Whole(match_thresholds.author_year + JournalBonus)

\* C24: when one of the two titles is empty, the three parts of the score
\* and the score are 0, in either order of the arguments.
C24_EmptyTitleScoresZero ==
    (sim_pc = "both" /\ (sim_a = <<>> \/ sim_b = <<>>)) =>
        /\ SeqRatio(sim_a, sim_b) = Whole(0)
        /\ Jaccard(WordSet(sim_a), WordSet(sim_b)) = Whole(0)
        /\ Jaccard(Ngrams(sim_a), Ngrams(sim_b)) = Whole(0)
        /\ sim_ab = Whole(0)
        /\ sim_ba = Whole(0)

\* The places of s where a word starts: a word character with none before.
WordStarts(s) ==
    {i \in 1..Len(s) : IsWord(s[i]) /\ (i = 1 \/ ~IsWord(s[i - 1]))}

\* The word of s that starts at i, lower-cased.
WordAt(s, i) ==
    Lower(SubSeq(s, i, CHOOSE j \in i..Len(s) :
                           /\ \A m \in i..j : IsWord(s[m])
                           /\ (j = Len(s) \/ ~IsWord(s[j + 1]))))

\* The words of s that start at the places of S, in their order in s.
WordsAt(s, S) ==
    [n \in 1..Cardinality(S) |->
        WordAt(s, CHOOSE i \in S : Cardinality({j \in S : j < i}) = n - 1)]

\* The places where a word of s starts that is not a stop word.
KeptStarts(s) == {i \in WordStarts(s) : WordAt(s, i) \notin StopWords}

\* Words and single spaces between them, nothing else.
SingleSpaced(o) ==
    /\ \A i \in 1..Len(o) : IsWord(o[i]) \/ o[i] = " "
    /\ o # <<>> => o[1] # " " /\ o[Len(o)] # " "
    /\ \A i \in 1..(Len(o) - 1) : ~(o[i] = " " /\ o[i + 1] = " ")

\* o is the canonical form of the title: the lower-cased words of the
\* title that are not stop words, in their order, single-spaced; the
\* empty string for a missing title.
CanonicalOf(o, cell) ==
    IF IsNa(cell) THEN o = <<>>
    ELSE /\ SingleSpaced(o)
         /\ WordsAt(o, WordStarts(o)) = WordsAt(PyStr(cell), KeptStarts(PyStr(cell)))

InBand(score, lo, hi) ==
    FracGeq(score, Whole(lo)) /\ ~FracGeq(score, Whole(hi + 1))

\* C26: the confidence of every result is in the band that lines 379-382
\* print for its status: 95-100 for definite_match, 85-94 for
\* very_likely_match, 70-84 for probable_match, 60-69 for possible_match.
C26_StatusBands ==
    \A k \in 1..Len(results) :
        /\ results[k].match_status = "definite_match" =>
               /\ FracGeq(results[k].match_confidence, Whole(95))
               /\ FracGeq(Whole(100), results[k].match_confidence)
        /\ results[k].match_status = "very_likely_match" =>
               InBand(results[k].match_confidence, 85, 94)
        /\ results[k].match_status = "probable_match" =>
               InBand(results[k].match_confidence, 70, 84)
        /\ results[k].match_status = "possible_match" =>
               InBand(results[k].match_confidence, 60, 69)

\* C27: a doi result is for a row whose normalized DOI is not empty, and
\* the reference row it reports has that normalized DOI.
C27_DoiTierSound ==
    \A k \in 1..Len(results) :
        results[k].match_type = "doi" =>
            /\ NormalizeDoi(search_results_df[results[k].search_idx].doi) # <<>>
            /\ results[k].reference_idx \in 1..Len(reference_df)
            /\ reference_df[results[k].reference_idx].doi_normalized
                   = NormalizeDoi(search_results_df[results[k].search_idx].doi)

\* C27's case: the lookup has the empty string as a key, one row of the
\* batch has a doi result and another, whose DOI is the empty string, has
\* a result of another tier or none.
C27_Witness ==
    /\ <<>> \in DOMAIN doi_lookup
    /\ \E k \in 1..Len(results) : results[k].match_type = "doi"
    /\ \E k \in 1..Len(results) :
           /\ search_results_df[results[k].search_idx].doi = Str(<<>>)
           /\ results[k].match_type # "doi"

\* The candidate has a publication year: its cell is neither missing nor
\* the empty string.
HasYear(row) == ~IsNa(row.year) /\ PyStr(row.year) # <<>>

\* C28: a title_year_exact or author_year result is for a row that has a
\* publication year.
C28_YearTiersNeedYear ==
    \A k \in 1..Len(results) :
        results[k].match_type \in {"title_year_exact", "author_year"} =>
            HasYear(search_results_df[results[k].search_idx])

\* C29: the "Surname, Given" form and the "Surname G." form of an author
\* give the same first author, the surname with nothing after it.
C29_SurnameFormatFree ==
    author_pc = "both" =>
        /\ author_comma.raised = "" /\ author_initial.raised = ""
        /\ author_comma.value = author_initial.value
        /\ author_comma.value = author_surname

----------------------------------------------------------------------------
(* The claims about the constructor and the report *)

\* C15: a deduplicator that find_matches can be called on has every
\* expected column in its reference table, and one whose construction
\* failed has matched nothing.
C15_AllColumnsOrFail ==
    /\ phase = "ready" =>
           \A k \in 1..Len(reference_df), column \in Columns :
               reference_df[k][column] # Absent
    /\ phase = "failed" => pc = "idle" /\ results = <<>>

Statuses ==
    {"no_match", "possible_match", "probable_match", "very_likely_match",
     "definite_match"}

\* The candidates of a category.
CandidatesIn(category) == {m[1] : m \in category}

\* C16: in a report with a summary the three categories are pairwise
\* disjoint, every candidate is in exactly one row of exactly one of them,
\* and the five counts of the summary add up to total_search_results.
C16_ReportPartition ==
    (report.pc # "none" /\ report.summary # NoSummary) =>
        /\ report.new_unique \cap report.review_needed = {}
        /\ report.new_unique \cap report.confirmed_dupes = {}
        /\ report.review_needed \cap report.confirmed_dupes = {}
        /\ CandidatesIn(report.new_unique \cup report.review_needed
                          \cup report.confirmed_dupes)
               = 1..Len(search_results_df)
        /\ Cardinality(report.new_unique \cup report.review_needed
                         \cup report.confirmed_dupes)
               = Len(search_results_df)
        /\ report.summary.total_search_results = Len(search_results_df)
        /\ report.summary.new_unique_articles + report.summary.definite_matches
             + report.summary.very_likely_matches
             + report.summary.probable_matches
             + report.summary.possible_matches
               = report.summary.total_search_results

\* C16's case: a report on a batch with a row to review and a confirmed
\* duplicate.
C16_Witness ==
    /\ report.pc # "none"
    /\ report.review_needed # {}
    /\ report.confirmed_dupes # {}
    /\ report.summary.total_search_results = Len(search_results_df)

----------------------------------------------------------------------------
(* The claims about concurrent calls and about what a call leaves alone *)

\* find_matches on a batch, alone: how it ends and what it returns.
RECURSIVE SequentialFrom(_, _, _)
SequentialStep(batch, i, acc, m) ==
    IF m.raised # "" THEN [pc |-> "raised", exc |-> m.raised, results |-> <<>>]
    ELSE SequentialFrom(batch, i + 1, Append(acc, m.info))

SequentialFrom(batch, i, acc) ==
    IF i > Len(batch) THEN [pc |-> "returned", exc |-> "", results |-> acc]
    ELSE SequentialStep(batch, i, acc, MatchRow(i, batch[i]))

EndsAsAlone(worker) ==
    [pc |-> worker.pc, exc |-> worker.exc, results |-> worker.results]
        = SequentialFrom(worker.search_results_df, 1, <<>>)

\* C17: under every interleaving a worker's call ends as it does alone, and
\* a step of one worker changes neither another worker's call nor the
\* reference table and its lookups.
C17_ConcurrentSafe ==
    /\ [](\A w \in Workers :
              workers[w].pc \in {"returned", "raised"} => EndsAsAlone(workers[w]))
    /\ [][/\ phase = "ready" =>
                 UNCHANGED <<reference_df, doi_lookup, title_year_lookup>>
          /\ \A w, v \in Workers :
                 (workers'[w] # workers[w] /\ v # w) => workers'[v] = workers[v]]_vars

\* C17's case: two workers, both in their loops, one of them with a row
\* already appended.
C17_Witness ==
    \E w, v \in Workers :
        /\ w # v
        /\ workers[w].pc = "loop" /\ workers[w].results # <<>>
        /\ workers[v].pc = "loop" /\ workers[v].idx = 1
        /\ workers[v].search_results_df # <<>>

\* Every row of the reference table has its derived columns, its
\* normalized DOI leads to a row with that DOI in doi_lookup, and the row is
\* in the list of its key in title_year_lookup.
LookupsBuilt ==
    \A k \in 1..Len(reference_df) :
        /\ reference_df[k].doi_normalized = NormalizeDoi(reference_df[k].DOI_URL)
        /\ reference_df[k].title_normalized = NormalizeTitle(reference_df[k].Title)
        /\ reference_df[k].doi_normalized \in DOMAIN doi_lookup
        /\ reference_df[doi_lookup[reference_df[k].doi_normalized]].doi_normalized
               = reference_df[k].doi_normalized
        /\ TitleYearKey(reference_df[k]) \in DOMAIN title_year_lookup
        /\ k \in Range(title_year_lookup[TitleYearKey(reference_df[k])])

\* C18: once the constructor has returned the reference table and the two
\* lookups are complete and no step changes them, and no step of
\* find_matches or of the report changes the candidate table.
C18_InputsUnchanged ==
    /\ [](phase = "ready" => LookupsBuilt)
    /\ [][/\ phase = "ready" =>
                 UNCHANGED <<reference_df, doi_lookup, title_year_lookup,
                             match_thresholds>>
          /\ pc \in {"loop", "returned"} =>
                 search_results_df' = search_results_df]_vars

\* C18's case: find_matches has returned and the report has been
\* generated on a reference table of two rows.
C18_Witness ==
    /\ phase = "ready"
    /\ Len(reference_df) > 1
    /\ pc = "returned" /\ results # <<>>
    /\ report.pc # "none"

----------------------------------------------------------------------------
(* The claim about the parallel search *)

\* The eids of the articles of a list.
EidsOf(articles) == {articles[i].eid : i \in 1..Len(articles)}

\* The eids that are not empty in the results of the agents whose results
\* the main thread has merged.
FoundEids ==
    UNION {EidsOf(agent_results[a]) : a \in {b \in Agents : agent_state[b] = "collected"}}
        \ {""}

SearchEnded == \A a \in Agents : agent_state[a] \in {"collected", "reported"}

\* C30: all_results has no two records with one eid and no record with an
\* empty eid, its eids are those that the agents merged so far have found,
\* and seen_eids is the set of its eids: after every step of every order
\* of the agents, and so at the end of the search.
C30_ParallelMerge ==
    /\ \A i, j \in 1..Len(all_results) :
           all_results[i].eid = all_results[j].eid => i = j
    /\ "" \notin EidsOf(all_results)
    /\ EidsOf(all_results) = FoundEids
    /\ seen_eids = EidsOf(all_results)

\* C30's case: the search has ended, an eid was found by two agents that
\* returned, an agent that returned found an entry without an eid, and an
\* agent failed after it had found an eid.
C30_Witness ==
    /\ SearchEnded
    /\ \E a, b \in Agents :
           /\ a # b
           /\ agent_state[a] = "collected" /\ agent_state[b] = "collected"
           /\ (EidsOf(agent_results[a]) \cap EidsOf(agent_results[b])) \ {""} # {}
    /\ \E a \in Agents :
           agent_state[a] = "collected" /\ "" \in EidsOf(agent_results[a])
    /\ \E a \in Agents :
           agent_state[a] = "reported" /\ EidsOf(agent_results[a]) \ {""} # {}

====
